---- MODULE Spec2Model ----
(***************************************************************************)
(* toa-cookie-session: a cookie-backed session middleware.                 *)
(*                                                                         *)
(* The model follows src/index.js: the middleware factory                  *)
(* toaCookieSession, the per-request closure cookieSession with its lazy   *)
(* `session` getter/setter and its onPreEnd hook, the Session constructor  *)
(* and the encode/decode helpers.  Text is modelled as a sequence of code  *)
(* points, so that JSON.stringify, JSON.parse and base64 are computed and  *)
(* not assumed to be inverse to one another.                               *)
(***************************************************************************)
EXTENDS Integers, Sequences, FiniteSets, TLC

(***************************************************************************)
(* JavaScript values.  Every value is a record whose field t is the type   *)
(* tag; each type has a payload field of its own.                          *)
(*   "undefined", "null"        no payload                                 *)
(*   "boolean"                  b \in BOOLEAN                              *)
(*   "number"                   n \in Int                                  *)
(*   "string"                   s = sequence of code points                *)
(*   "array"                    a = sequence of values                     *)
(*   "object"                   p = sequence of <<key, value>> pairs in    *)
(*                              property order, keys are strings (code     *)
(*                              point sequences) and unique                *)
(*   "session"                  id, isNew, props: a Session instance       *)
(***************************************************************************)
Undefined == [t |-> "undefined"]
Null == [t |-> "null"]
Bool(b) == [t |-> "boolean", b |-> b]
Num(n) == [t |-> "number", n |-> n]
Str(s) == [t |-> "string", s |-> s]
Arr(a) == [t |-> "array", a |-> a]
Obj(p) == [t |-> "object", p |-> p]
\* An instance of Session: id tells one instance from another, isNew is its
\* non-enumerable, non-writable property, props its enumerable properties.
Sess(id, isNew, props) ==
  [t |-> "session", id |-> id, isNew |-> isNew, props |-> props]

\* ToBoolean: the values the `!obj`, `obj &&` and `if (obj)` tests of the
\* source treat as false.
Falsy(x) ==
  \/ x.t \in {"undefined", "null"}
  \/ x.t = "boolean" /\ x.b = FALSE
  \/ x.t = "number" /\ x.n = 0
  \/ x.t = "string" /\ x.s = <<>>

\* typeof val === 'object' for a value that is not null or undefined.
TypeofObject(x) == x.t \in {"object", "array", "session"}

(***************************************************************************)
(* Property lists.                                                         *)
(***************************************************************************)
RECURSIVE HasKey(_, _)
HasKey(props, k) ==
  IF props = <<>> THEN FALSE
  ELSE IF Head(props)[1] = k THEN TRUE ELSE HasKey(Tail(props), k)

RECURSIVE GetProp(_, _)
GetProp(props, k) ==
  IF props = <<>> THEN Undefined
  ELSE IF Head(props)[1] = k THEN Head(props)[2] ELSE GetProp(Tail(props), k)

\* obj[k] = val: an existing key keeps its place, a new key is appended.
RECURSIVE SetProp(_, _, _)
SetProp(props, k, val) ==
  IF props = <<>> THEN << <<k, val>> >>
  ELSE IF Head(props)[1] = k THEN << <<k, val>> >> \o Tail(props)
  ELSE << Head(props) >> \o SetProp(Tail(props), k, val)

\* The decimal digits of a natural number, as code points.
RECURSIVE Digits(_)
Digits(n) == IF n < 10 THEN << 48 + n >> ELSE Digits(n \div 10) \o << 48 + (n % 10) >>

\* Object.keys(obj) paired with obj[key], for any truthy value: the own
\* enumerable properties.  A string has one indexed property per character,
\* an array one per element, a number or a boolean none.
RECURSIVE Indexed(_, _)
Indexed(items, i) ==
  IF i > Len(items) THEN <<>>
  ELSE << <<Digits(i - 1), items[i]>> >> \o Indexed(items, i + 1)

OwnEntries(x) ==
  CASE x.t = "object" -> x.p
    [] x.t = "session" -> x.props
    [] x.t = "array" -> Indexed(x.a, 1)
    [] x.t = "string" -> Indexed([i \in 1..Len(x.s) |-> Str(<<x.s[i]>>)], 1)
    [] OTHER -> <<>>

(***************************************************************************)
(* JSON.stringify.  Text is a sequence of code points.                     *)
(***************************************************************************)
HexDigit(d) == IF d < 10 THEN 48 + d ELSE 87 + d

\* QuoteJSONString for one code point.
QuoteChar(c) ==
  CASE c = 34 -> <<92, 34>>
    [] c = 92 -> <<92, 92>>
    [] c = 8 -> <<92, 98>>
    [] c = 9 -> <<92, 116>>
    [] c = 10 -> <<92, 110>>
    [] c = 12 -> <<92, 102>>
    [] c = 13 -> <<92, 114>>
    [] c < 32 /\ c \notin {8, 9, 10, 12, 13} ->
         <<92, 117, 48, 48, HexDigit(c \div 16), HexDigit(c % 16)>>
    [] OTHER -> <<c>>

RECURSIVE QuoteRange(_, _, _)
QuoteRange(s, lo, hi) ==
  IF lo > hi THEN <<>>
  ELSE IF lo = hi THEN QuoteChar(s[lo])
  ELSE QuoteRange(s, lo, (lo + hi) \div 2) \o QuoteRange(s, (lo + hi) \div 2 + 1, hi)

Quote(s) == <<34>> \o QuoteRange(s, 1, Len(s)) \o <<34>>

RECURSIVE Stringify(_)
RECURSIVE StringifyProps(_, _)
RECURSIVE StringifyItems(_, _)
\* A property whose value is undefined is left out of the text.
StringifyProps(props, first) ==
  IF props = <<>> THEN <<>>
  ELSE IF Head(props)[2].t = "undefined" THEN StringifyProps(Tail(props), first)
  ELSE (IF first THEN <<>> ELSE <<44>>)
       \o Quote(Head(props)[1]) \o <<58>> \o Stringify(Head(props)[2])
       \o StringifyProps(Tail(props), FALSE)

\* An array element that is undefined is written null.
StringifyItems(items, first) ==
  IF items = <<>> THEN <<>>
  ELSE (IF first THEN <<>> ELSE <<44>>)
       \o (IF Head(items).t = "undefined" THEN <<110, 117, 108, 108>>
           ELSE Stringify(Head(items)))
       \o StringifyItems(Tail(items), FALSE)

\* JSON.stringify(x) for x other than undefined.
Stringify(x) ==
  CASE x.t = "null" -> <<110, 117, 108, 108>>
    [] x.t = "boolean" ->
         IF x.b THEN <<116, 114, 117, 101>> ELSE <<102, 97, 108, 115, 101>>
    [] x.t = "number" -> IF x.n < 0 THEN <<45>> \o Digits(0 - x.n) ELSE Digits(x.n)
    [] x.t = "string" -> Quote(x.s)
    [] x.t = "array" -> <<91>> \o StringifyItems(x.a, TRUE) \o <<93>>
    [] x.t = "object" -> <<123>> \o StringifyProps(x.p, TRUE) \o <<125>>
    [] x.t = "session" -> <<123>> \o StringifyProps(x.props, TRUE) \o <<125>>

(***************************************************************************)
(* UTF-8 and base64, as Buffer does them.  They are computed position by   *)
(* position.                                                               *)
(***************************************************************************)
Utf8Char(c) ==
  IF c < 128 THEN <<c>>
  ELSE IF c < 2048 THEN <<192 + (c \div 64), 128 + (c % 64)>>
  ELSE <<224 + (c \div 4096), 128 + ((c \div 64) % 64), 128 + (c % 64)>>

\* The UTF-8 bytes of the characters lo..hi of the text.
RECURSIVE Utf8Range(_, _, _)
Utf8Range(s, lo, hi) ==
  IF lo > hi THEN <<>>
  ELSE IF lo = hi THEN Utf8Char(s[lo])
  ELSE Utf8Range(s, lo, (lo + hi) \div 2) \o Utf8Range(s, (lo + hi) \div 2 + 1, hi)

\* new Buffer(string): the UTF-8 bytes of the text.
Utf8Encode(s) == Utf8Range(s, 1, Len(s))

IsCont(c) == c >= 128 /\ c < 192

\* The length of the well-formed sequence that starts at byte i: 1 to 3, or
\* 0 when none starts there.
Utf8Len(b, i) ==
  IF b[i] < 128 THEN 1
  ELSE IF /\ b[i] >= 194 /\ b[i] < 224
          /\ i + 1 <= Len(b) /\ IsCont(b[i + 1]) THEN 2
  ELSE IF /\ b[i] >= 224 /\ b[i] < 240
          /\ i + 2 <= Len(b) /\ IsCont(b[i + 1]) /\ IsCont(b[i + 2])
          /\ (b[i] = 224 => b[i + 1] >= 160)
          /\ (b[i] = 237 => b[i + 1] < 160) THEN 3
  ELSE 0

\* Byte i continues a sequence that starts one or two bytes before it.  The
\* byte that starts a sequence is never itself a continuation byte.
Utf8Inside(b, i) ==
  /\ IsCont(b[i])
  /\ \/ i > 1 /\ Utf8Len(b, i - 1) >= 2
     \/ i > 2 /\ Utf8Len(b, i - 2) = 3

\* The character decoded at byte i: a byte that starts no well-formed
\* sequence becomes U+FFFD (65533).
Utf8At(b, i) ==
  IF Utf8Len(b, i) = 1 THEN b[i]
  ELSE IF Utf8Len(b, i) = 2 THEN (b[i] - 192) * 64 + (b[i + 1] - 128)
  ELSE IF Utf8Len(b, i) = 3
       THEN (b[i] - 224) * 4096 + (b[i + 1] - 128) * 64 + (b[i + 2] - 128)
  ELSE 65533

Utf8Chars(b, starts) == [k \in 1..Len(starts) |-> Utf8At(b, starts[k])]

\* buffer.toString('utf8')
Utf8Decode(b) ==
  Utf8Chars(b, SelectSeq([i \in 1..Len(b) |-> i], LAMBDA i : ~Utf8Inside(b, i)))

\* The base64 alphabet: A-Z a-z 0-9 + /
B64Char(n) ==
  IF n < 26 THEN 65 + n
  ELSE IF n < 52 THEN 97 + (n - 26)
  ELSE IF n < 62 THEN 48 + (n - 52)
  ELSE IF n = 62 THEN 43 ELSE 47

\* The decoder also takes the URL-safe - and _; -1 is an illegal character.
UnB64(c) ==
  IF c >= 65 /\ c <= 90 THEN c - 65
  ELSE IF c >= 97 /\ c <= 122 THEN c - 97 + 26
  ELSE IF c >= 48 /\ c <= 57 THEN c - 48 + 52
  ELSE IF c = 43 \/ c = 45 THEN 62
  ELSE IF c = 47 \/ c = 95 THEN 63
  ELSE 0 - 1

ByteAt(b, i) == IF i <= Len(b) THEN b[i] ELSE 0

\* Character p (0..3) of the group of four that encodes the three bytes
\* after byte number base; '=' pads a group that is short of bytes.
B64At(b, base, p) ==
  IF p = 0 THEN B64Char(b[base + 1] \div 4)
  ELSE IF p = 1 THEN B64Char((b[base + 1] % 4) * 16 + (ByteAt(b, base + 2) \div 16))
  ELSE IF p = 2 THEN
    (IF base + 2 > Len(b) THEN 61
     ELSE B64Char((b[base + 2] % 16) * 4 + (ByteAt(b, base + 3) \div 64)))
  ELSE IF base + 3 > Len(b) THEN 61 ELSE B64Char(b[base + 3] % 64)

\* buffer.toString('base64')
Base64Encode(b) ==
  [j \in 1..(4 * ((Len(b) + 2) \div 3)) |-> B64At(b, 3 * ((j - 1) \div 4), (j - 1) % 4)]

\* The index of the first '=' of the text, or one past its end.
B64Stop(s) ==
  IF \E i \in 1..Len(s) : s[i] = 61
  THEN CHOOSE i \in 1..Len(s) : s[i] = 61 /\ \A k \in 1..(i - 1) : s[k] # 61
  ELSE Len(s) + 1

B64Legal(c) == UnB64(c) >= 0
UnB64All(f) == [k \in 1..Len(f) |-> UnB64(f[k])]

\* The legal characters of the text up to the first '=', as 6-bit numbers:
\* the decoder skips an illegal character and stops at '='.
Sextets(s) == UnB64All(SelectSeq(SubSeq(s, 1, B64Stop(s) - 1), B64Legal))

\* Byte p (0..2) of the three bytes that the group of four 6-bit numbers
\* after number base encodes.
SextetByte(q, base, p) ==
  IF p = 0 THEN q[base + 1] * 4 + (q[base + 2] \div 16)
  ELSE IF p = 1 THEN (q[base + 2] % 16) * 16 + (q[base + 3] \div 4)
  ELSE (q[base + 3] % 4) * 64 + q[base + 4]

\* A last group of two numbers gives one byte, of three gives two, and a
\* single number gives none.
SextetsToBytes(q) ==
  [k \in 1..((Len(q) \div 4) * 3 + (IF Len(q) % 4 >= 2 THEN (Len(q) % 4) - 1 ELSE 0))
     |-> SextetByte(q, 4 * ((k - 1) \div 3), (k - 1) % 3)]

\* new Buffer(string, 'base64'): never throws.
Base64Decode(s) == SextetsToBytes(Sextets(s))

(***************************************************************************)
(* JSON.parse.  A parse step returns [ok, v, i]: whether it succeeded, the *)
(* value read, and the index of the first character after it.  Numbers are *)
(* integers: the texts of the model hold no fraction and no exponent.      *)
(***************************************************************************)
ParseFail == [ok |-> FALSE, v |-> Undefined, i |-> 0]
Parsed(val, next) == [ok |-> TRUE, v |-> val, i |-> next]

IsWs(c) == c \in {32, 9, 10, 13}
IsDigit(c) == c >= 48 /\ c <= 57
IsHex(c) == IsDigit(c) \/ (c >= 65 /\ c <= 70) \/ (c >= 97 /\ c <= 102)
HexVal(c) == IF IsDigit(c) THEN c - 48 ELSE IF c >= 97 THEN c - 87 ELSE c - 55

RECURSIVE SkipWs(_, _)
SkipWs(t, i) == IF i <= Len(t) /\ IsWs(t[i]) THEN SkipWs(t, i + 1) ELSE i

\* Does the text hold the word w at index i?
Matches(t, i, w) == i + Len(w) - 1 <= Len(t) /\ SubSeq(t, i, i + Len(w) - 1) = w

\* The characters of a string literal from index i, just after its opening
\* quote, up to its closing quote.
RECURSIVE ParseString(_, _, _)
ParseString(t, i, acc) ==
  IF i > Len(t) THEN ParseFail
  ELSE IF t[i] = 34 THEN Parsed(Str(acc), i + 1)
  ELSE IF t[i] < 32 THEN ParseFail
  ELSE IF t[i] # 92 THEN ParseString(t, i + 1, Append(acc, t[i]))
  ELSE IF i + 1 > Len(t) THEN ParseFail
  ELSE IF t[i + 1] \in {34, 92, 47} THEN ParseString(t, i + 2, Append(acc, t[i + 1]))
  ELSE IF t[i + 1] = 98 THEN ParseString(t, i + 2, Append(acc, 8))
  ELSE IF t[i + 1] = 102 THEN ParseString(t, i + 2, Append(acc, 12))
  ELSE IF t[i + 1] = 110 THEN ParseString(t, i + 2, Append(acc, 10))
  ELSE IF t[i + 1] = 114 THEN ParseString(t, i + 2, Append(acc, 13))
  ELSE IF t[i + 1] = 116 THEN ParseString(t, i + 2, Append(acc, 9))
  ELSE IF /\ t[i + 1] = 117 /\ i + 5 <= Len(t)
          /\ \A j \in (i + 2)..(i + 5) : IsHex(t[j])
       THEN ParseString(t, i + 6,
              Append(acc, HexVal(t[i + 2]) * 4096 + HexVal(t[i + 3]) * 256
                          + HexVal(t[i + 4]) * 16 + HexVal(t[i + 5])))
  ELSE ParseFail

RECURSIVE ParseDigits(_, _, _)
ParseDigits(t, i, acc) ==
  IF i <= Len(t) /\ IsDigit(t[i]) THEN ParseDigits(t, i + 1, acc * 10 + (t[i] - 48))
  ELSE Parsed(Num(acc), i)

\* -? ( 0 | [1-9][0-9]* )
ParseInt(t, j) ==
  IF j > Len(t) \/ ~IsDigit(t[j]) THEN ParseFail
  ELSE IF t[j] = 48 THEN Parsed(Num(0), j + 1)
  ELSE ParseDigits(t, j, 0)

NumberEnd(t, r, neg) ==
  IF ~r.ok THEN ParseFail
  ELSE IF r.i <= Len(t) /\ t[r.i] \in {46, 69, 101} THEN ParseFail
  ELSE IF neg THEN Parsed(Num(0 - r.v.n), r.i) ELSE r

ParseNumber(t, i) == NumberEnd(t, ParseInt(t, IF t[i] = 45 THEN i + 1 ELSE i), t[i] = 45)

RECURSIVE ParseValue(_, _)
RECURSIVE ParseMembers(_, _, _)
RECURSIVE ParseElements(_, _, _)

\* After a member, at index e: '}' ends the object, ',' asks for a member.
MemberNext(t, props, e) ==
  IF e > Len(t) THEN ParseFail
  ELSE IF t[e] = 125 THEN Parsed(Obj(props), e + 1)
  ELSE IF t[e] = 44 THEN ParseMembers(t, e + 1, props)
  ELSE ParseFail

\* A key that occurs twice keeps its last value.
MemberEnd(t, acc, k, val) ==
  IF ~val.ok THEN ParseFail
  ELSE MemberNext(t, SetProp(acc, k, val.v), SkipWs(t, val.i))

ParseAfterColon(t, c) ==
  IF c <= Len(t) /\ t[c] = 58 THEN ParseValue(t, c + 1) ELSE ParseFail

MemberValue(t, acc, key) ==
  IF ~key.ok THEN ParseFail
  ELSE MemberEnd(t, acc, key.v.s, ParseAfterColon(t, SkipWs(t, key.i)))

ParseKey(t, k) ==
  IF k <= Len(t) /\ t[k] = 34 THEN ParseString(t, k + 1, <<>>) ELSE ParseFail

\* The members of an object from index i, where a member must start.
ParseMembers(t, i, acc) == MemberValue(t, acc, ParseKey(t, SkipWs(t, i)))

\* After an element, at index e: ']' ends the array, ',' asks for an element.
ElementNext(t, items, e) ==
  IF e > Len(t) THEN ParseFail
  ELSE IF t[e] = 93 THEN Parsed(Arr(items), e + 1)
  ELSE IF t[e] = 44 THEN ParseElements(t, e + 1, items)
  ELSE ParseFail

ElementEnd(t, acc, val) ==
  IF ~val.ok THEN ParseFail
  ELSE ElementNext(t, Append(acc, val.v), SkipWs(t, val.i))

\* The elements of an array from index i, where an element must start.
ParseElements(t, i, acc) == ElementEnd(t, acc, ParseValue(t, i))

\* After '{', at index k.
ObjectAt(t, k) ==
  IF k <= Len(t) /\ t[k] = 125 THEN Parsed(Obj(<<>>), k + 1)
  ELSE ParseMembers(t, k, <<>>)

\* After '[', at index k.
ArrayAt(t, k) ==
  IF k <= Len(t) /\ t[k] = 93 THEN Parsed(Arr(<<>>), k + 1)
  ELSE ParseElements(t, k, <<>>)

ValueAt(t, j) ==
  IF j > Len(t) THEN ParseFail
  ELSE IF t[j] = 123 THEN ObjectAt(t, SkipWs(t, j + 1))
  ELSE IF t[j] = 91 THEN ArrayAt(t, SkipWs(t, j + 1))
  ELSE IF t[j] = 34 THEN ParseString(t, j + 1, <<>>)
  ELSE IF Matches(t, j, <<116, 114, 117, 101>>) THEN Parsed(Bool(TRUE), j + 4)
  ELSE IF Matches(t, j, <<102, 97, 108, 115, 101>>) THEN Parsed(Bool(FALSE), j + 5)
  ELSE IF Matches(t, j, <<110, 117, 108, 108>>) THEN Parsed(Null, j + 4)
  ELSE IF t[j] = 45 \/ IsDigit(t[j]) THEN ParseNumber(t, j)
  ELSE ParseFail

ParseValue(t, i) == ValueAt(t, SkipWs(t, i))

\* Nothing but white space may follow the value.
ParseEnd(t, r) ==
  IF r.ok /\ SkipWs(t, r.i) = Len(t) + 1 THEN [ok |-> TRUE, v |-> r.v]
  ELSE [ok |-> FALSE, v |-> Undefined]

\* JSON.parse(text): [ok |-> FALSE] stands for the SyntaxError it throws.
JSONParse(t) == ParseEnd(t, ParseValue(t, 1))

(***************************************************************************)
(* The helpers of src/index.js.                                            *)
(***************************************************************************)
\* decode(string): the parsed value; undefined when JSON.parse throws, the
\* catch block being empty.
\* The catch block returning an empty object.
Caught_emptyObject(r) == IF r.ok THEN r.v ELSE Obj(<<>>)

\* try { return ... } catch (e) {}
Caught(r) == IF r.ok THEN r.v ELSE Undefined

decode(string) == Caught(JSONParse(Utf8Decode(Base64Decode(string))))

\* encode without the base64 step.
encode_noBase64(body) == Stringify(body)

\* encode(body): the JSON text of body in base64.  Of a Session the text
\* holds the enumerable properties; isNew is not enumerable.
encode(body) == Base64Encode(Utf8Encode(Stringify(body)))

(***************************************************************************)
(* Bounds and inputs of the model.                                         *)
(***************************************************************************)
\* Accesses to session and sessionOptions a handler makes in one request.
MaxOps == 2
\* Requests the client sends, one after the other.
MaxRequests == 2

\* The request contexts of the host.
Reqs == {1, 2}

\* Strings of the source and of its tests, as code points.
s_toa_sess == <<116, 111, 97, 58, 115, 101, 115, 115>>          \* 'toa:sess'
s_hi_session == <<104, 105, 46, 115, 101, 115, 115, 105, 111, 110>> \* 'hi.session'
s_message == <<109, 101, 115, 115, 97, 103, 101>>                \* 'message'
s_name == <<110, 97, 109, 101>>                                  \* 'name'
s_isNew == <<105, 115, 78, 101, 119>>                            \* 'isNew'
s_hi == <<104, 105>>                                             \* 'hi'
s_semi == <<59>>                                                 \* ';'
s_toa == <<116, 111, 97>>                                        \* 'toa'
s_invalid == <<105, 110, 118, 97, 108, 105, 100>>                \* 'invalid'
s_invalid_string ==                                              \* 'invalid_string'
  <<105, 110, 118, 97, 108, 105, 100, 95, 115, 116, 114, 105, 110, 103>>

(***************************************************************************)
(* Options.  An options object is a record over OptionFields whose fields  *)
(* hold JavaScript values, Undefined for a property that is not there.     *)
(* sessionOptions is Object.create(options): a field of it holds Inherited *)
(* until the handler assigns it.                                           *)
(***************************************************************************)
OptionFields == {"name", "signed", "overwrite", "httpOnly", "secure", "maxAge"}
Inherited == [t |-> "inherited"]
NoOptions == [f \in OptionFields |-> Undefined]
With(o, f, val) == [o EXCEPT ![f] = val]

\* toaCookieSession(options): the normalisation the factory applies to the
\* object it was given.
toaCookieSession(opts) ==
  [opts EXCEPT !["overwrite"] = Bool(opts["overwrite"] # Bool(FALSE)),
               !["httpOnly"] = Bool(opts["httpOnly"] # Bool(FALSE)),
               !["signed"] = Bool(opts["signed"] # Bool(FALSE))]

\* var sessionKey = options.name || 'toa:sess'
sessionKeyOf(opts) == IF Falsy(opts["name"]) THEN s_toa_sess ELSE opts["name"].s

\* What a property read of sessionOptions gives: the own property, else the
\* property of its prototype, the factory's options.
Effective(own, base) ==
  [f \in OptionFields |-> IF own[f].t = "inherited" THEN base[f] ELSE own[f]]

\* The options objects the middleware is built with, and whether the
\* connection of the requests is encrypted.
Deployments ==
  { [opts |-> NoOptions, encrypted |-> FALSE],
    [opts |-> With(With(NoOptions, "name", Str(s_hi_session)), "signed", Bool(FALSE)),
     encrypted |-> FALSE],
    [opts |-> With(NoOptions, "secure", Bool(TRUE)), encrypted |-> FALSE],
    [opts |-> With(With(NoOptions, "secure", Bool(TRUE)), "maxAge", Num(3600000)),
     encrypted |-> TRUE] }

(***************************************************************************)
(* Cookies.  A cookie of the request is [has, value, sigOk, from, cleared]: *)
(* whether the request carries a cookie of the session's name, its value,  *)
(* whether a valid signature comes with it, for a cookie this middleware   *)
(* wrote the session it was written from (Undefined for any other), and    *)
(* whether the last response answered a request that had a valid session   *)
(* and set it to null.                                                     *)
(***************************************************************************)
NoCookie ==
  [has |-> FALSE, value |-> <<>>, sigOk |-> FALSE, from |-> Undefined, cleared |-> FALSE]
Cookie(value, sigOk) ==
  [has |-> TRUE, value |-> value, sigOk |-> sigOk, from |-> Undefined, cleared |-> FALSE]

\* this.cookies.get(name, options) of the host: the value of the cookie, or
\* undefined when there is none or when options.signed asks for a signature
\* and no valid one comes with it.
CookiesGet(cookie, opts) ==
  IF cookie.has /\ (~Falsy(opts["signed"]) => cookie.sigOk)
  THEN Str(cookie.value) ELSE Undefined

\* this.cookies.set(name, value, options) of the host throws when
\* options.secure is asked for on a connection that is not encrypted.
CookiesSetThrows(opts, isEncrypted) == ~Falsy(opts["secure"]) /\ ~isEncrypted

(***************************************************************************)
(* The Session constructor.                                                *)
(***************************************************************************)
\* function Session (obj): [threw, s].  isNew is defined as !obj, not
\* writable; then every own enumerable key of a truthy obj is assigned.  The
\* file is in strict mode, so assigning the key 'isNew' throws a TypeError.
Construct(id, isNew, entries) ==
  IF HasKey(entries, s_isNew)
  THEN [threw |-> TRUE, s |-> Undefined]
  ELSE [threw |-> FALSE, s |-> Sess(id, isNew, entries)]

Session(obj, id) ==
  Construct(id, Falsy(obj), IF Falsy(obj) THEN <<>> ELSE OwnEntries(obj))

(***************************************************************************)
(* The closure cookieSession of one request, as functions of its state.    *)
(***************************************************************************)
\* `session === false`: the session was neither read nor assigned.
IsFalse(x) == x.t = "boolean" /\ x.b = FALSE

\* get: function () {...}: [session, threw, gets].  session is the closure
\* variable afterwards and, when nothing is thrown, the value returned.
\* When Session throws, the closure variable is left holding the raw cookie
\* value assigned on the line before.
Fetched(raw, made) ==
  [session |-> IF made.threw THEN raw ELSE made.s, threw |-> made.threw, gets |-> 1]

Load(raw, id) == Fetched(raw, Session(IF Falsy(raw) THEN raw ELSE decode(raw.s), id))

\* The getter testing `!session` in place of `session === false`: it loads
\* again after the session was set to null.
getter_reloadsNull(sess, cookie, opts, id) ==
  IF ~IsFalse(sess) /\ sess.t # "null" THEN [session |-> sess, threw |-> FALSE, gets |-> 0]
  ELSE Load(CookiesGet(cookie, opts), id)

\* The getter fetching and decoding the cookie on every read.
getter_refetches(sess, cookie, opts, id) == Load(CookiesGet(cookie, opts), id)

getter(sess, cookie, opts, id) ==
  IF ~IsFalse(sess) THEN [session |-> sess, threw |-> FALSE, gets |-> 0]
  ELSE Load(CookiesGet(cookie, opts), id)

\* set: function (val) {...}: [session, threw].
Replaced(sess, made) ==
  IF made.threw THEN [session |-> sess, threw |-> "TypeError"]
  ELSE [session |-> made.s, threw |-> "none"]

\* The setter wrapping every value that is not null or undefined.
setter_wrapsAny(sess, val, id) ==
  IF val.t \in {"null", "undefined"} THEN [session |-> Null, threw |-> "none"]
  ELSE Replaced(sess, Session(val, id))

\* The setter storing null before it throws for a value it does not accept.
setter_clearsOnInvalid(sess, val, id) ==
  IF val.t \in {"null", "undefined"} THEN [session |-> Null, threw |-> "none"]
  ELSE IF TypeofObject(val) THEN Replaced(sess, Session(val, id))
  ELSE [session |-> Null, threw |-> "InvalidSessionValue"]

\* The setter going back to `session = false` for an object without own keys.
setter_unloadsOnEmpty(sess, val, id) ==
  IF val.t \in {"null", "undefined"} THEN [session |-> Null, threw |-> "none"]
  ELSE IF TypeofObject(val) /\ OwnEntries(val) = <<>>
       THEN [session |-> Bool(FALSE), threw |-> "none"]
  ELSE IF TypeofObject(val) THEN Replaced(sess, Session(val, id))
  ELSE [session |-> sess, threw |-> "InvalidSessionValue"]

\* The setter going back to `session = false` for null and undefined.
setter_unloadsOnNull(sess, val, id) ==
  IF val.t \in {"null", "undefined"} THEN [session |-> Bool(FALSE), threw |-> "none"]
  ELSE IF TypeofObject(val) THEN Replaced(sess, Session(val, id))
  ELSE [session |-> sess, threw |-> "InvalidSessionValue"]

setter(sess, val, id) ==
  IF val.t \in {"null", "undefined"} THEN [session |-> Null, threw |-> "none"]
  ELSE IF TypeofObject(val) THEN Replaced(sess, Session(val, id))
  ELSE [session |-> sess, threw |-> "InvalidSessionValue"]

\* onPreEnd without its test `session !== false`.
onPreEnd_unguarded(sess, key, opts, isEncrypted) ==
  [calls |-> << [name |-> key,
                 value |-> IF sess.t \in {"null", "undefined"} THEN <<>> ELSE encode(sess),
                 options |-> opts] >>,
   threw |-> CookiesSetThrows(opts, isEncrypted),
   cb |-> IF CookiesSetThrows(opts, isEncrypted) THEN 0 ELSE 1]

\* onPreEnd writing the empty value for a session that is new, as for null.
onPreEnd_clearsNew(sess, key, opts, isEncrypted) ==
  IF IsFalse(sess) THEN [calls |-> <<>>, threw |-> FALSE, cb |-> 1]
  ELSE [calls |-> << [name |-> key,
                       value |-> IF sess.t \in {"null", "undefined"} THEN <<>>
                                 ELSE IF sess.t = "session" /\ sess.isNew THEN <<>>
                                 ELSE encode(sess),
                       options |-> opts] >>,
        threw |-> CookiesSetThrows(opts, isEncrypted),
        cb |-> IF CookiesSetThrows(opts, isEncrypted) THEN 0 ELSE 1]

\* onPreEnd leaving out the write of a session that has no properties.
onPreEnd_skipsEmpty(sess, key, opts, isEncrypted) ==
  IF IsFalse(sess) \/ (sess.t = "session" /\ sess.props = <<>>)
  THEN [calls |-> <<>>, threw |-> FALSE, cb |-> 1]
  ELSE [calls |-> << [name |-> key,
                       value |-> IF sess.t \in {"null", "undefined"} THEN <<>>
                                 ELSE encode(sess),
                       options |-> opts] >>,
        threw |-> CookiesSetThrows(opts, isEncrypted),
        cb |-> IF CookiesSetThrows(opts, isEncrypted) THEN 0 ELSE 1]

\* onPreEnd writing nothing for a session that is null.
onPreEnd_keepsOnNull(sess, key, opts, isEncrypted) ==
  IF IsFalse(sess) \/ sess.t \in {"null", "undefined"}
  THEN [calls |-> <<>>, threw |-> FALSE, cb |-> 1]
  ELSE [calls |-> << [name |-> key, value |-> encode(sess), options |-> opts] >>,
        threw |-> CookiesSetThrows(opts, isEncrypted),
        cb |-> IF CookiesSetThrows(opts, isEncrypted) THEN 0 ELSE 1]

\* onPreEnd removing the cookie before it writes it.
onPreEnd_writesTwice(sess, key, opts, isEncrypted) ==
  IF IsFalse(sess) THEN [calls |-> <<>>, threw |-> FALSE, cb |-> 1]
  ELSE [calls |-> << [name |-> key, value |-> <<>>, options |-> opts],
                     [name |-> key,
                      value |-> IF sess.t \in {"null", "undefined"} THEN <<>> ELSE encode(sess),
                      options |-> opts] >>,
        threw |-> CookiesSetThrows(opts, isEncrypted),
        cb |-> IF CookiesSetThrows(opts, isEncrypted) THEN 0 ELSE 1]

\* this.onPreEnd = function (cb) {...}: [calls, threw, cb].  calls are the
\* calls of this.cookies.set, cb the number of calls of cb.
onPreEnd(sess, key, opts, isEncrypted) ==
  IF IsFalse(sess) THEN [calls |-> <<>>, threw |-> FALSE, cb |-> 1]
  ELSE [calls |-> << [name |-> key,
                       value |-> IF sess.t \in {"null", "undefined"} THEN <<>>
                                 ELSE encode(sess),
                       options |-> opts] >>,
        threw |-> CookiesSetThrows(opts, isEncrypted),
        cb |-> IF CookiesSetThrows(opts, isEncrypted) THEN 0 ELSE 1]

(***************************************************************************)
(* State.                                                                  *)
(***************************************************************************)
VARIABLES
  options,        \* the options object of the factory, after toaCookieSession
  encrypted,      \* whether the connection of the requests is encrypted
  jar,            \* the session cookie the client holds
  started,        \* the number of requests the client has sent
  pc,             \* per request: "idle", "handler", "finished", "failed", "done"
  cookieIn,       \* per request: the session cookie the request carries
  session,        \* per request: the closure variable `session`
  sessionOptions, \* per request: the own properties of this.sessionOptions
  nextId,         \* per request: the number of Session instances made
  getCalls,       \* per request: the number of calls of this.cookies.get
  setCalls,       \* per request: the calls of this.cookies.set
  preEndCalls,    \* per request: the number of calls of this.onPreEnd
  cbCalls,        \* per request: the number of calls of the callback of onPreEnd
  thrown,         \* per request: the error that ended the request, or "none"
  response,       \* per request: the response sent, [status, cookies]
  nOps,           \* per request: the accesses the handler has made
  wasRead,        \* per request: the handler has read `session`
  assigned,       \* per request: the last value assigned: "none", "null", "object"
  mutated,        \* per request: the handler has changed a property of a session
  rejected,       \* per request: the handler has assigned a value that is neither
                  \* null, undefined nor an object
  loaded          \* per request: the value the first read returned

vars == <<options, encrypted, jar, started, pc, cookieIn, session, sessionOptions,
          nextId, getCalls, setCalls, preEndCalls, cbCalls, thrown, response,
          nOps, wasRead, assigned, mutated, rejected, loaded>>

deployment == <<options, encrypted>>
plumbing == <<getCalls, setCalls, preEndCalls, cbCalls, response>>

sessionKey == sessionKeyOf(options)
NoResponse == [status |-> 0, cookies |-> <<>>]
NotLoaded == [t |-> "none"]

\* The cookies a client may hold when it sends its first request.
Payload(x) == Base64Encode(Utf8Encode(Stringify(x)))
InputCookies ==
  { NoCookie,
    Cookie(<<>>, TRUE),
    Cookie(s_invalid_string, TRUE),
    Cookie(Payload(Obj(<< <<s_message, Str(s_hi)>> >>)), TRUE),
    Cookie(Payload(Obj(<< <<s_message, Str(s_hi)>> >>)), FALSE),
    Cookie(SubSeq(Payload(Obj(<< <<s_message, Str(s_hi)>> >>)), 1, 20), TRUE),
    Cookie(Payload(Obj(<<>>)), TRUE),
    Cookie(Payload(Null), TRUE),
    Cookie(Payload(Str(s_hi)), TRUE),
    Cookie(Payload(Obj(<< <<s_isNew, Bool(TRUE)>> >>)), TRUE) }

\* What the handlers of the model do with the session.
Mutations ==
  { <<s_message, Str(s_hi)>>, <<s_message, Str(s_semi)>>, <<s_name, Undefined>> }
Assignables ==
  { Null, Undefined, Obj(<<>>), Obj(<< <<s_name, Str(s_toa)>> >>),
    Obj(<< <<s_isNew, Bool(TRUE)>> >>), Str(s_invalid) }
OptionChanges == { <<"maxAge", Num(6500000)>> }

Init ==
  /\ \E d \in Deployments :
       /\ options = toaCookieSession(d.opts)
       /\ encrypted = d.encrypted
  /\ jar \in InputCookies
  /\ started = 0
  /\ pc = [r \in Reqs |-> "idle"]
  /\ cookieIn = [r \in Reqs |-> NoCookie]
  /\ session = [r \in Reqs |-> Bool(FALSE)]
  /\ sessionOptions = [r \in Reqs |-> [f \in OptionFields |-> Inherited]]
  /\ nextId = [r \in Reqs |-> 0]
  /\ getCalls = [r \in Reqs |-> 0]
  /\ setCalls = [r \in Reqs |-> <<>>]
  /\ preEndCalls = [r \in Reqs |-> 0]
  /\ cbCalls = [r \in Reqs |-> 0]
  /\ thrown = [r \in Reqs |-> "none"]
  /\ response = [r \in Reqs |-> NoResponse]
  /\ nOps = [r \in Reqs |-> 0]
  /\ wasRead = [r \in Reqs |-> FALSE]
  /\ assigned = [r \in Reqs |-> "none"]
  /\ mutated = [r \in Reqs |-> FALSE]
  /\ rejected = [r \in Reqs |-> FALSE]
  /\ loaded = [r \in Reqs |-> NotLoaded]

(***************************************************************************)
(* Actions.                                                                *)
(***************************************************************************)
Free(r) == pc[r] \in {"idle", "done"}

\* The variable `session` kept once for the middleware, not once per call of
\* cookieSession: a request that begins sets it to false for all.
cookieSession_oneSession(sessions, r) == [q \in Reqs |-> Bool(FALSE)]

\* cookieSession(done): `var session = false` is a variable of this call, so
\* of the request in context r alone.
cookieSession(sessions, r) == [sessions EXCEPT ![r] = Bool(FALSE)]

\* A request arrives with the cookie the client holds; the host gives it the
\* first free context and runs the middleware: cookieSession(done) sets
\* session = false and this.sessionOptions = Object.create(options), defines
\* the accessors and onPreEnd, and calls done().
Begin(r) ==
  /\ Free(r)
  /\ \A q \in Reqs : q < r => ~Free(q)
  /\ started < MaxRequests
  /\ started' = started + 1
  /\ pc' = [pc EXCEPT ![r] = "handler"]
  /\ cookieIn' = [cookieIn EXCEPT ![r] = jar]
  /\ session' = cookieSession(session, r)
  /\ sessionOptions' = [sessionOptions EXCEPT ![r] = [f \in OptionFields |-> Inherited]]
  /\ nextId' = [nextId EXCEPT ![r] = 0]
  /\ getCalls' = [getCalls EXCEPT ![r] = 0]
  /\ setCalls' = [setCalls EXCEPT ![r] = <<>>]
  /\ preEndCalls' = [preEndCalls EXCEPT ![r] = 0]
  /\ cbCalls' = [cbCalls EXCEPT ![r] = 0]
  /\ thrown' = [thrown EXCEPT ![r] = "none"]
  /\ response' = [response EXCEPT ![r] = NoResponse]
  /\ nOps' = [nOps EXCEPT ![r] = 0]
  /\ wasRead' = [wasRead EXCEPT ![r] = FALSE]
  /\ assigned' = [assigned EXCEPT ![r] = "none"]
  /\ mutated' = [mutated EXCEPT ![r] = FALSE]
  /\ rejected' = [rejected EXCEPT ![r] = FALSE]
  /\ loaded' = [loaded EXCEPT ![r] = NotLoaded]
  /\ UNCHANGED <<deployment, jar>>

\* The handler may still access the session.
CanAccess(r) == pc[r] = "handler" /\ nOps[r] < MaxOps

\* What a call of the getter in request r does to the state of the request;
\* g is the result of getter.
Got(r, g) ==
  /\ getCalls' = [getCalls EXCEPT ![r] = @ + g.gets]
  /\ nextId' = [nextId EXCEPT ![r] = IF g.gets = 1 /\ ~g.threw THEN @ + 1 ELSE @]
  /\ loaded' = [loaded EXCEPT ![r] = IF g.gets = 1 /\ ~g.threw THEN g.session ELSE @]
  /\ wasRead' = [wasRead EXCEPT ![r] = TRUE]
  /\ nOps' = [nOps EXCEPT ![r] = @ + 1]

GetterOf(r) ==
  getter(session[r], cookieIn[r], Effective(sessionOptions[r], options), nextId[r] + 1)

\* The handler reads this.session.  An error the getter throws is not caught
\* by the handler and ends it.
Read(r) ==
  /\ CanAccess(r)
  /\ \E g \in {GetterOf(r)} :
        /\ Got(r, g)
        /\ session' = [session EXCEPT ![r] = g.session]
        /\ thrown' = [thrown EXCEPT ![r] = IF g.threw THEN "TypeError" ELSE @]
        /\ pc' = [pc EXCEPT ![r] = IF g.threw THEN "failed" ELSE @]
  /\ UNCHANGED <<deployment, jar, started, cookieIn, sessionOptions, setCalls,
                 preEndCalls, cbCalls, response, assigned, mutated, rejected>>

\* The handler runs this.session[k] = val: a read, then an assignment to a
\* property of what was read, which throws a TypeError when that is null.
SetSessionProp(r, k, val) ==
  /\ CanAccess(r)
  /\ \E g \in {GetterOf(r)} :
     \E ok \in {~g.threw /\ g.session.t = "session"} :
        /\ Got(r, g)
        /\ session' = [session EXCEPT ![r] =
             IF ok THEN Sess(g.session.id, g.session.isNew,
                             SetProp(g.session.props, k, val))
             ELSE g.session]
        /\ mutated' = [mutated EXCEPT ![r] = IF ok THEN TRUE ELSE @]
        /\ thrown' = [thrown EXCEPT ![r] = IF ok THEN @ ELSE "TypeError"]
        /\ pc' = [pc EXCEPT ![r] = IF ok THEN @ ELSE "failed"]
  /\ UNCHANGED <<deployment, jar, started, cookieIn, sessionOptions, setCalls,
                 preEndCalls, cbCalls, response, assigned, rejected>>

\* The handler runs this.session = val.  An error the setter throws is not
\* caught by the handler and ends it.
Assign(r, val) ==
  /\ CanAccess(r)
  /\ \E st \in {setter(session[r], val, nextId[r] + 1)} :
     \E ok \in {st.threw = "none"} :
        /\ session' = [session EXCEPT ![r] = st.session]
        /\ nextId' = [nextId EXCEPT ![r] = IF ok /\ st.session.t = "session" THEN @ + 1 ELSE @]
        /\ assigned' = [assigned EXCEPT ![r] =
             IF ~ok THEN @ ELSE IF st.session.t = "session" THEN "object" ELSE "null"]
        /\ thrown' = [thrown EXCEPT ![r] = IF ok THEN @ ELSE st.threw]
        /\ pc' = [pc EXCEPT ![r] = IF ok THEN @ ELSE "failed"]
  /\ rejected' = [rejected EXCEPT ![r] =
       @ \/ (val.t \notin {"null", "undefined"} /\ ~TypeofObject(val))]
  /\ nOps' = [nOps EXCEPT ![r] = @ + 1]
  /\ UNCHANGED <<deployment, jar, started, cookieIn, sessionOptions, getCalls, setCalls,
                 preEndCalls, cbCalls, response, wasRead, mutated, loaded>>

\* An assignment to a field of this.sessionOptions writing the field of the
\* options object of the factory.
AssignOption_writesBase(own, base, f, val) ==
  [own |-> own, base |-> [base EXCEPT ![f] = val]]

\* this.sessionOptions[f] = val: [own, base].  this.sessionOptions is
\* Object.create(options), so the assignment makes an own property of it and
\* leaves options, its prototype, as it is.
AssignOption(own, base, f, val) ==
  [own |-> [own EXCEPT ![f] = val], base |-> base]

\* The handler runs this.sessionOptions[f] = val.
SetSessionOption(r, f, val) ==
  /\ CanAccess(r)
  /\ \E a \in {AssignOption(sessionOptions[r], options, f, val)} :
        /\ sessionOptions' = [sessionOptions EXCEPT ![r] = a.own]
        /\ options' = a.base
  /\ nOps' = [nOps EXCEPT ![r] = @ + 1]
  /\ UNCHANGED <<encrypted, jar, started, pc, cookieIn, session, nextId, plumbing,
                 thrown, wasRead, assigned, mutated, rejected, loaded>>

\* The handlers return without an error.
HandlerReturn(r) ==
  /\ pc[r] = "handler"
  /\ pc' = [pc EXCEPT ![r] = "finished"]
  /\ UNCHANGED <<deployment, jar, started, cookieIn, session, sessionOptions, nextId,
                 plumbing, thrown, nOps, wasRead, assigned, mutated, rejected, loaded>>

\* The host calls this.onPreEnd(cb), once: always after the handlers have
\* returned, and possibly after they have failed.  An error of cookies.set
\* leaves onPreEnd before cb is called and fails the request.
PreEnd(r) ==
  /\ pc[r] \in {"finished", "failed"}
  /\ preEndCalls[r] = 0
  /\ \E e \in {onPreEnd(session[r], sessionKey, Effective(sessionOptions[r], options),
                         encrypted)} :
        /\ setCalls' = [setCalls EXCEPT ![r] = @ \o e.calls]
        /\ cbCalls' = [cbCalls EXCEPT ![r] = @ + e.cb]
        /\ thrown' = [thrown EXCEPT ![r] = IF e.threw /\ @ = "none" THEN "CookieError" ELSE @]
        /\ pc' = [pc EXCEPT ![r] = IF e.threw THEN "failed" ELSE @]
  /\ preEndCalls' = [preEndCalls EXCEPT ![r] = 1]
  /\ UNCHANGED <<deployment, jar, started, cookieIn, session, sessionOptions, nextId,
                 getCalls, response, nOps, wasRead, assigned, mutated, rejected, loaded>>

\* The cookie the client holds after a response: a cookie set with an empty
\* value is removed, any other replaces the one held.
Stored(c, sess) ==
  IF c.value = <<>> THEN NoCookie
  ELSE [has |-> TRUE, value |-> c.value, sigOk |-> ~Falsy(c.options["signed"]),
        from |-> sess, cleared |-> FALSE]

JarAfter(held, calls, sess) ==
  IF calls = <<>> THEN held ELSE Stored(calls[Len(calls)], sess)

\* What this.cookies.get gives the getter in request r.
Fetch(r) == CookiesGet(cookieIn[r], Effective(sessionOptions[r], options))

\* The text JSON.parse is given for the cookie value of request r.
IncomingText(r) == Utf8Decode(Base64Decode(Fetch(r).s))

\* Request r brought a session cookie that cookies.get accepts and decode
\* can parse.
ValidIncoming(r) == Fetch(r).t = "string" /\ JSONParse(IncomingText(r)).ok

\* The cookie state with the note of how the last response left it: cleared
\* when the request had brought a valid session, set it to null and was
\* answered without an error.
Marked(cookie, cleared) == [cookie EXCEPT !.cleared = cleared]

\* The host sends the response: the cookies set during the request when no
\* error was thrown, a server error without cookies otherwise.
Respond(r) ==
  /\ \/ pc[r] = "finished" /\ preEndCalls[r] = 1
     \/ pc[r] = "failed"
  /\ \E ok \in {thrown[r] = "none"} :
        /\ response' = [response EXCEPT ![r] =
             [status |-> IF ok THEN 200 ELSE 500,
              cookies |-> IF ok THEN setCalls[r] ELSE <<>>]]
        /\ jar' = Marked(IF ok THEN JarAfter(jar, setCalls[r], session[r]) ELSE jar,
                         ok /\ assigned[r] = "null" /\ ValidIncoming(r))
  /\ pc' = [pc EXCEPT ![r] = "done"]
  /\ UNCHANGED <<deployment, started, cookieIn, session, sessionOptions, nextId,
                 getCalls, setCalls, preEndCalls, cbCalls, thrown, nOps, wasRead,
                 assigned, mutated, rejected, loaded>>

\* One request at a time.
Next ==
  \E r \in Reqs :
    \/ (\A q \in Reqs : Free(q)) /\ Begin(r)
    \/ Read(r)
    \/ \E m \in Mutations : SetSessionProp(r, m[1], m[2])
    \/ \E val \in Assignables : Assign(r, val)
    \/ \E c \in OptionChanges : SetSessionOption(r, c[1], c[2])
    \/ HandlerReturn(r)
    \/ PreEnd(r)
    \/ Respond(r)

Spec == Init /\ [][Next]_vars

(***************************************************************************)
(* Requests in flight together.  The host gives every request a context of *)
(* its own and runs the handlers of different requests in any order; each  *)
(* context serves one request.                                             *)
(***************************************************************************)
InterleavedDeployments ==
  { [opts |-> NoOptions, encrypted |-> FALSE],
    [opts |-> With(NoOptions, "maxAge", Num(3600000)), encrypted |-> FALSE] }
InterleavedCookies ==
  { NoCookie, Cookie(Payload(Obj(<< <<s_message, Str(s_hi)>> >>)), TRUE) }
InterleavedMutations == { <<s_message, Str(s_semi)>> }
InterleavedAssignables == { Null, Obj(<< <<s_name, Str(s_toa)>> >>), Str(s_invalid) }

InitInterleaved ==
  /\ \E d \in InterleavedDeployments :
       /\ options = toaCookieSession(d.opts)
       /\ encrypted = d.encrypted
  /\ jar \in InterleavedCookies
  /\ started = 0
  /\ pc = [r \in Reqs |-> "idle"]
  /\ cookieIn = [r \in Reqs |-> NoCookie]
  /\ session = [r \in Reqs |-> Bool(FALSE)]
  /\ sessionOptions = [r \in Reqs |-> [f \in OptionFields |-> Inherited]]
  /\ nextId = [r \in Reqs |-> 0]
  /\ getCalls = [r \in Reqs |-> 0]
  /\ setCalls = [r \in Reqs |-> <<>>]
  /\ preEndCalls = [r \in Reqs |-> 0]
  /\ cbCalls = [r \in Reqs |-> 0]
  /\ thrown = [r \in Reqs |-> "none"]
  /\ response = [r \in Reqs |-> NoResponse]
  /\ nOps = [r \in Reqs |-> 0]
  /\ wasRead = [r \in Reqs |-> FALSE]
  /\ assigned = [r \in Reqs |-> "none"]
  /\ mutated = [r \in Reqs |-> FALSE]
  /\ rejected = [r \in Reqs |-> FALSE]
  /\ loaded = [r \in Reqs |-> NotLoaded]

NextInterleaved ==
  \E r \in Reqs :
    \/ started < Cardinality(Reqs) /\ Begin(r)
    \/ Read(r)
    \/ \E m \in InterleavedMutations : SetSessionProp(r, m[1], m[2])
    \/ \E val \in InterleavedAssignables : Assign(r, val)
    \/ \E c \in OptionChanges : SetSessionOption(r, c[1], c[2])
    \/ HandlerReturn(r)
    \/ PreEnd(r)
    \/ Respond(r)

SpecInterleaved == InitInterleaved /\ [][NextInterleaved]_vars

(***************************************************************************)
(* Properties.                                                             *)
(***************************************************************************)
\* The handler of request r has read `session` or has assigned it.
Touched(r) == wasRead[r] \/ assigned[r] # "none"

\* onPreEnd has run in request r.
Finalized(r) == preEndCalls[r] = 1

\* The one call of cookies.set that writes the value in request r.
Writes(r, value) ==
  setCalls[r] = << [name |-> sessionKey, value |-> value,
                    options |-> Effective(sessionOptions[r], options)] >>

\* 'e30=' and 'eyJtZXNzYWdlIjoiaGkifQ==': base64 of {} and of {"message":"hi"}
b64_empty == <<101, 51, 48, 61>>
b64_message_hi ==
  <<101, 121, 74, 116, 90, 88, 78, 122, 89, 87, 100, 108, 73, 106, 111, 105,
    97, 71, 107, 105, 102, 81, 61, 61>>

\* C1: in a request whose handler neither reads nor assigns `session`,
\* cookies.set is never called and the response carries no cookie, whatever
\* cookie the request brought in.
C1_UntouchedSetsNoCookie ==
  \A r \in Reqs :
    (~wasRead[r] /\ assigned[r] = "none") =>
      setCalls[r] = <<>> /\ response[r].cookies = <<>>

\* A request that brought a cookie, never touched the session, was finalized
\* and answered.
C1_Witness ==
  \E r \in Reqs :
    /\ pc[r] = "done" /\ Finalized(r) /\ response[r].status = 200
    /\ ~wasRead[r] /\ assigned[r] = "none" /\ ~rejected[r]
    /\ cookieIn[r].has /\ cookieIn[r].sigOk

C3_NullWritesEmptyValue ==
  \A r \in Reqs :
    (Finalized(r) /\ assigned[r] = "null") => Writes(r, <<>>)

\* A request with a valid session cookie that read the session, then set it
\* to null, and was finalized.
C3_Witness ==
  \E r \in Reqs :
    /\ Finalized(r) /\ pc[r] = "done" /\ response[r].status = 200
    /\ assigned[r] = "null" /\ wasRead[r]
    /\ loaded[r].t = "session" /\ ~loaded[r].isNew
    /\ response[r].cookies # <<>> /\ response[r].cookies[1].value = <<>>

OnlyRead(r) == wasRead[r] /\ ~mutated[r] /\ assigned[r] = "none"

\* C5: when the handler reads the session, a new one of a request without
\* a cookie or the one decoded from a valid cookie, and does not change it,
\* the response sets no cookie.
C5_ReadOnlySetsNoCookie ==
  \A r \in Reqs :
    (pc[r] = "done" /\ thrown[r] = "none" /\ OnlyRead(r)
       /\ (~cookieIn[r].has \/ ValidIncoming(r))) =>
      response[r].cookies = <<>>

\* C6: in a request without a session cookie, assigning an object without
\* own keys sets no cookie at finalization, and assigning an object with an
\* own key sets one.
C6_EmptyObjectSetsNoCookie ==
  \A r \in Reqs :
    (pc[r] = "done" /\ thrown[r] = "none" /\ ~cookieIn[r].has
       /\ assigned[r] = "object" /\ ~mutated[r]) =>
      (response[r].cookies = <<>> <=> session[r].props = <<>>)

\* C7: assigning `session` a value that is neither null, undefined nor an
\* object throws at once and ends the handler, whatever was done with the
\* session before; the assignment itself leads to no call of cookies.set,
\* and the response of the failed request is a server error without a cookie.
C7_InvalidAssignmentThrows ==
  \A r \in Reqs :
    rejected[r] =>
      /\ thrown[r] = "InvalidSessionValue"
      /\ pc[r] \in {"failed", "done"}
      /\ assigned[r] \in {"none", "null", "object"}
      /\ (~wasRead[r] /\ assigned[r] = "none") => setCalls[r] = <<>>
      /\ pc[r] = "done" => (response[r].status = 500 /\ response[r].cookies = <<>>)

\* A request that read its session, then assigned the string 'invalid', and
\* was answered.
C7_Witness ==
  \E r \in Reqs :
    /\ rejected[r] /\ wasRead[r] /\ pc[r] = "done"
    /\ loaded[r].t = "session" /\ session[r] = loaded[r]
    /\ response[r].status = 500

\* C8: every Session a handler can get in a request has isNew true exactly
\* when the request brought no valid session cookie, whether the first read
\* or an assignment made the Session.
C8_IsNewIffNoValidCookie ==
  \A r \in Reqs :
    session[r].t = "session" => (session[r].isNew <=> ~ValidIncoming(r))

\* C9: when the request has no session cookie cookies.get returns, or one
\* whose value decode cannot parse, the first read throws nothing and returns
\* a Session without own keys whose isNew is true.
C9_UndecodableGivesNewSession ==
  \A r \in Reqs :
    (wasRead[r] /\ getCalls[r] = 1 /\ ~ValidIncoming(r)) =>
      /\ loaded[r].t = "session"
      /\ loaded[r].isNew
      /\ loaded[r].props = <<>>
      /\ (nOps[r] = 1 /\ ~mutated[r]) =>
           (session[r] = loaded[r] /\ thrown[r] \notin {"TypeError", "InvalidSessionValue"})

\* A request that brought the value 'invalid_string' and read its session.
C9_Witness ==
  \E r \in Reqs :
    /\ cookieIn[r].has /\ cookieIn[r].value = s_invalid_string
    /\ Fetch(r).t = "string"
    /\ wasRead[r] /\ getCalls[r] = 1 /\ loaded[r].t = "session"
    /\ pc[r] = "done" /\ response[r].status = 200

\* Every own property of the session has a value JSON has a text for.
Serializable(sess) ==
  sess.t = "session" /\ \A i \in 1..Len(sess.props) : sess.props[i][2].t # "undefined"

\* C10: when a request brings, unchanged, the cookie an earlier request
\* wrote from a session S whose values JSON can represent, its first read
\* gives a Session with the own keys and values of S, a value containing ';'
\* included, and isNew false; decode(encode(S)) is the object of these keys
\* and values.
C10_RoundTrip ==
  \A r \in Reqs :
    /\ (getCalls[r] = 1 /\ Serializable(cookieIn[r].from)) =>
         /\ loaded[r].t = "session"
         /\ loaded[r].props = cookieIn[r].from.props
         /\ ~loaded[r].isNew
    /\ Serializable(session[r]) =>
         decode(encode(session[r])) = Obj(session[r].props)

\* A second request whose read gives back the message ';' that the first
\* request stored.
C10_Witness ==
  \E r \in Reqs :
    /\ started = 2 /\ getCalls[r] = 1
    /\ Serializable(cookieIn[r].from)
    /\ cookieIn[r].from.props = << <<s_message, Str(s_semi)>> >>
    /\ loaded[r].t = "session" /\ loaded[r].props = << <<s_message, Str(s_semi)>> >>

\* C11: a request sent with the cookie state left by the response to a
\* request that had a valid session and set it to null carries no session
\* cookie, and its first read gives a Session with isNew true and no keys.
C11_NullThenNewSession ==
  \A r \in Reqs :
    cookieIn[r].cleared =>
      /\ ~cookieIn[r].has
      /\ getCalls[r] = 1 =>
           (loaded[r].t = "session" /\ loaded[r].isNew /\ loaded[r].props = <<>>)

\* A second request, sent after the first had its valid session set to null,
\* that read its session.
C11_Witness ==
  \E r \in Reqs :
    /\ started = 2 /\ cookieIn[r].cleared
    /\ wasRead[r] /\ getCalls[r] = 1
    /\ loaded[r].t = "session" /\ loaded[r].isNew
    /\ pc[r] = "done" /\ response[r].status = 200

\* A step of the request in context r: the middleware begins it, its handler
\* uses the session or the options or returns, or the host finalizes or
\* answers it.
StepOf(r) == pc'[r] # pc[r] \/ nOps'[r] # nOps[r] \/ preEndCalls'[r] # preEndCalls[r]

\* The step is the one that begins the request in context r.
Begins(r) == pc[r] \in {"idle", "done"} /\ pc'[r] = "handler"

\* The maxAge that cookies.set is given for the session cookie of request r.
WrittenMaxAge(r) == setCalls[r][1].options["maxAge"]

\* C12: every request begins with sessionOptions that has no own field, so
\* with the options of the factory; an assignment to a field of it in one
\* request changes the options of that request's cookie only: the options
\* of the factory never change, and no step of one request changes the
\* sessionOptions of another, be it earlier, later or in flight together.
C12_SessionOptionsPerRequest ==
  /\ [](\A r \in Reqs :
          setCalls[r] # <<>> =>
            /\ setCalls[r][1].options = Effective(sessionOptions[r], options)
            /\ WrittenMaxAge(r) =
                 IF sessionOptions[r]["maxAge"] = Inherited
                 THEN options["maxAge"] ELSE sessionOptions[r]["maxAge"])
  /\ [][/\ options' = options
        /\ \A r \in Reqs :
             /\ Begins(r) => sessionOptions'[r] = [f \in OptionFields |-> Inherited]
             /\ StepOf(r) =>
                  \A q \in Reqs \ {r} : sessionOptions'[q] = sessionOptions[q]]_vars

\* Two requests in flight together under maxAge 3600000: the first has set
\* its maxAge to 6500000 and is still in its handler, the second has written
\* its cookie with 3600000.
C12_Witness ==
  /\ pc[1] = "handler" /\ sessionOptions[1]["maxAge"] = Num(6500000)
  /\ pc[2] = "done" /\ response[2].status = 200 /\ setCalls[2] # <<>>
  /\ WrittenMaxAge(2) = Num(3600000)
  /\ options["maxAge"] = Num(3600000)

\* C13: every call of onPreEnd calls the completion callback exactly once,
\* whatever the session is and also when cookies.set fails.
C13_CallbackAlwaysCalled ==
  \A r \in Reqs : cbCalls[r] = preEndCalls[r]

\* What onPreEnd gives cookies.set as the value for the session of request r.
ValueOf(r) == IF session[r].t \in {"null", "undefined"} THEN <<>> ELSE encode(session[r])

\* C14: with requests in flight together in any order, no step of one
\* request changes the session, the value read, the cookie fetched or the
\* cookie written of another; what a request reads first comes from its own
\* cookie, and what it writes at finalization from its own session.
C14_SessionIsRequestScoped ==
  /\ [](\A r \in Reqs :
          /\ loaded[r].t = "session" => loaded[r] = Load(Fetch(r), 1).session
          /\ (Finalized(r) /\ Touched(r)) => Writes(r, ValueOf(r)))
  /\ [][\A r \in Reqs :
          StepOf(r) =>
            \A q \in Reqs \ {r} :
              /\ session'[q] = session[q]
              /\ loaded'[q] = loaded[q]
              /\ cookieIn'[q] = cookieIn[q]
              /\ getCalls'[q] = getCalls[q]
              /\ setCalls'[q] = setCalls[q]]_vars

\* Two requests in their handlers at once, one with the session of its
\* cookie changed, the other with an object assigned.
C14_Witness ==
  /\ pc[1] = "handler" /\ pc[2] = "handler"
  /\ mutated[1] /\ loaded[1].t = "session" /\ ~loaded[1].isNew
  /\ assigned[2] = "object" /\ session[2].t = "session"
  /\ session[1].props # session[2].props

\* C15: in a request the cookie is fetched at most once, and only by a read
\* made while `session` is still false; while a Session is held, a read
\* fetches nothing and returns that very Session, with the changes made to
\* it through earlier reads.
C15_FetchedOnceThenCached ==
  /\ [](\A r \in Reqs :
          /\ getCalls[r] <= 1
          /\ getCalls[r] = 1 => wasRead[r]
          /\ session[r].t = "session" =>
               GetterOf(r) = [session |-> session[r], threw |-> FALSE, gets |-> 0])
  /\ [][\A r \in Reqs :
          getCalls'[r] > getCalls[r] => IsFalse(session[r])]_vars

\* A request that changed a property of the session of its cookie and then
\* read the session again: one fetch, the same Session, the change in it.
C15_Witness ==
  \E r \in Reqs :
    /\ nOps[r] = 2 /\ getCalls[r] = 1 /\ mutated[r] /\ assigned[r] = "none"
    /\ loaded[r].t = "session" /\ ~loaded[r].isNew
    /\ session[r].t = "session" /\ session[r].id = loaded[r].id
    /\ session[r].props # loaded[r].props

\* The step is a use of the accessors of `session` by the handler of r.
Accesses(r) == nOps'[r] = nOps[r] + 1

\* C16: a read or an assignment of `session` calls cookies.set not at all
\* and changes neither the response nor the cookie the client holds; only a
\* call of onPreEnd calls cookies.set, and at most once.
C16_OnlyFinalizationWrites ==
  /\ [](\A r \in Reqs : Len(setCalls[r]) <= preEndCalls[r])
  /\ [][\A r \in Reqs :
          /\ Accesses(r) =>
               (setCalls' = setCalls /\ response' = response /\ jar' = jar)
          /\ (setCalls'[r] # setCalls[r] /\ ~Begins(r)) =>
               /\ preEndCalls'[r] = preEndCalls[r] + 1
               /\ Len(setCalls'[r]) = Len(setCalls[r]) + 1]_vars

\* A request in its handler after a read and an assignment, with no call of
\* cookies.set so far, which is then finalized with one.
C16_Witness ==
  \E r \in Reqs :
    /\ nOps[r] = 2 /\ wasRead[r] /\ assigned[r] = "object"
    /\ Finalized(r) /\ Len(setCalls[r]) = 1 /\ cbCalls[r] = 1

\* C17: after `session` was set to null or undefined, and until an object
\* is assigned, the closure variable is null and every read returns null
\* without fetching the cookie, also when the request brought a valid one.
C17_NullStaysNull ==
  \A r \in Reqs :
    /\ assigned[r] = "null" => session[r] = Null
    /\ session[r].t = "null" =>
         GetterOf(r) = [session |-> Null, threw |-> FALSE, gets |-> 0]

\* A request with a valid session cookie that set its session to null and
\* then read it: null, and no fetch.
C17_Witness ==
  \E r \in Reqs :
    /\ ValidIncoming(r) /\ cookieIn[r].has
    /\ assigned[r] = "null" /\ wasRead[r] /\ nOps[r] = 2
    /\ getCalls[r] = 0 /\ session[r] = Null /\ loaded[r] = NotLoaded

\* The objects a handler of the model may assign.
AssignableObjects == {val \in Assignables : TypeofObject(val)}

\* C18: assigning an object V to `session` puts a newly made Session in the
\* place of the current one, with the own keys and values of V and none of
\* the session held before.
C18_AssignReplacesWithCopy ==
  \A r \in Reqs : \A val \in AssignableObjects :
    pc[r] = "handler" =>
      /\ setter(session[r], val, nextId[r] + 1).threw = "none"
      /\ setter(session[r], val, nextId[r] + 1).session.t = "session"
      /\ setter(session[r], val, nextId[r] + 1).session.id = nextId[r] + 1
      /\ setter(session[r], val, nextId[r] + 1).session.props = OwnEntries(val)

InvalidValues == {Str(s_invalid), Str(<<>>), Num(0), Num(1), Bool(TRUE), Bool(FALSE)}

\* The step is an assignment in request r that the setter rejects.
Rejects(r) == rejected'[r] /\ ~rejected[r]

\* C20: an assignment of a value that is neither null, undefined nor an
\* object throws and leaves the closure variable as it was, false, a Session
\* or null; a finalization after it writes what that state asks for.
C20_RejectedAssignmentKeepsState ==
  /\ [](\A r \in Reqs :
          /\ \A val \in InvalidValues :
               setter(session[r], val, nextId[r] + 1) =
                 [session |-> session[r], threw |-> "InvalidSessionValue"]
          /\ (rejected[r] /\ Finalized(r)) =>
               IF IsFalse(session[r]) THEN setCalls[r] = <<>>
               ELSE Writes(r, ValueOf(r)))
  /\ [][\A r \in Reqs :
          Rejects(r) =>
            /\ session'[r] = session[r]
            /\ loaded'[r] = loaded[r]
            /\ nextId'[r] = nextId[r]
            /\ assigned'[r] = assigned[r]
            /\ setCalls'[r] = setCalls[r]
            /\ thrown'[r] = "InvalidSessionValue"]_vars

\* A request that changed its loaded session, then assigned 'invalid', and
\* was finalized: the Session is the one held before, and it is written.
C20_Witness ==
  \E r \in Reqs :
    /\ rejected[r] /\ mutated[r] /\ nOps[r] = 2
    /\ session[r].t = "session" /\ session[r].id = loaded[r].id
    /\ Finalized(r) /\ Len(setCalls[r]) = 1
    /\ setCalls[r][1].value = encode(session[r])

====
